---- MODULE Spec2Model ----
(***************************************************************************)
(* Model of resume.py, the ResumeProgram of the Slurm-GCP controller:      *)
(* group_nodes_bulk and the placement-group manager it calls, and the      *)
(* resume_nodes pipeline (build, dispatch, await, accelerator start,       *)
(* reconcile, quarantine).                                                 *)
(*                                                                         *)
(* Encoding of Python values:                                              *)
(*   - a node name "{cluster}-{nodeset}-{k}" is the pair <<nodeset, k>>,   *)
(*     k being the rank of the name among the names of its nodeset in      *)
(*     string order (the cluster name is one fixed string);                *)
(*   - Optional values: None is <<>>, a present value v is <<v>>           *)
(*     (a placement-group name is the triple <<nodeset, job_id, i>>);      *)
(*   - a dict is the sequence of its <<key, value>> items in insertion     *)
(*     order; a list is a sequence; a set is a set.                        *)
(***************************************************************************)
EXTENDS Integers, Sequences, FiniteSets, TLC

VARIABLES
    nodes,          \* set(nodes): the nodes to resume (resume.py:244)
    resume_data,    \* None or <<jobs>>: Optional[ResumeData]
    policies,       \* provider: names of the resource policies that exist
    pc,             \* position of the run
    job_groups,     \* group_nodes_bulk: the job_groups dict
    pg_calls,       \* the create_nodeset_placement_groups calls made so far
    grouped_nodes,  \* the dict returned by group_nodes_bulk
    tpu_start_data, \* resume_nodes: list of [tpu, node]
    bi_inserts,     \* resume_nodes: dict group -> built request
    build_failed,   \* None, or the group whose request construction raised
    bulk_ops,       \* resume_nodes: dict group -> operation or exception
    op_state,       \* provider: state of each started bulk operation
    bulk_operations,\* resume_nodes: dict group -> completed operation
    tpu_done,       \* the entries of tpu_start_data start_tpu has run on
    recon,          \* what the reconciliation of each group did
    events,         \* every scheduler command and provider call, in order
    runs,           \* the node set and the result of each group_nodes_bulk call
    dws,            \* None, or a call of dws_flex_duration: its arguments and result
    tpu_pos         \* entry of tpu_start_data -> how far its start_tpu call has got

inputs == <<nodes, resume_data>>
grouping == <<job_groups, pg_calls, grouped_nodes>>
running == <<tpu_start_data, bi_inserts, build_failed, bulk_ops, op_state, bulk_operations,
             tpu_done, recon, events, runs, dws, tpu_pos>>
vars == <<inputs, policies, pc, grouping, running>>

----------------------------------------------------------------------------
(* Program constants *)

PLACEMENT_MAX_CNT == 150
BULK_INSERT_LIMIT == 5000

None == <<>>
Some(x) == <<x>>

----------------------------------------------------------------------------
(* Generic Python / util helpers *)

Range(s) == {s[i] : i \in DOMAIN s}

Min(a, b) == IF a <= b THEN a ELSE b

RECURSIVE Flatten(_)
Flatten(ss) == IF ss = <<>> THEN <<>> ELSE Head(ss) \o Flatten(Tail(ss))

\* d[k] = v on an insertion-ordered dict: an existing key keeps its position
DictPut(d, k, v) ==
    IF \E i \in DOMAIN d : d[i][1] = k
    THEN [i \in DOMAIN d |-> IF d[i][1] = k THEN <<k, v>> ELSE d[i]]
    ELSE Append(d, <<k, v>>)

\* d.update(e), and dict(items)
RECURSIVE DictUpdate(_, _)
DictUpdate(d, e) ==
    IF e = <<>> THEN d ELSE DictUpdate(DictPut(d, Head(e)[1], Head(e)[2]), Tail(e))

DictKeys(d) == [i \in DOMAIN d |-> d[i][1]]
DictValues(d) == [i \in DOMAIN d |-> d[i][2]]
DictHas(d, k) == \E i \in DOMAIN d : d[i][1] = k
DictGet(d, k) == d[CHOOSE i \in DOMAIN d : d[i][1] = k][2]

\* util.chunked(iterable, n): consecutive slices of at most n items, none empty
chunked(s, n) ==
    IF n <= 0 \/ s = <<>> THEN <<>>
    ELSE [i \in 1..((Len(s) + n - 1) \div n) |->
              SubSeq(s, (i - 1) * n + 1, Min(i * n, Len(s)))]

\* util.groupby_unsorted(seq, key): <<key, items>> in order of first
\* occurrence; keys[i] is key(seq[i])
FirstIndex(keys, k) ==
    CHOOSE i \in DOMAIN keys : keys[i] = k /\ \A j \in 1..(i - 1) : keys[j] # k

RECURSIVE KeysByFirstIndex(_, _)
KeysByFirstIndex(keys, ks) ==
    IF ks = {} THEN <<>>
    ELSE LET k == CHOOSE x \in ks :
                     \A y \in ks : FirstIndex(keys, x) <= FirstIndex(keys, y)
         IN <<k>> \o KeysByFirstIndex(keys, ks \ {k})

Pick(s, idx) == [j \in DOMAIN idx |-> s[idx[j]]]

groupby_unsorted(s, keys) ==
    LET ks == KeysByFirstIndex(keys, Range(keys))
        positions == [i \in DOMAIN s |-> i]
    IN [i \in DOMAIN ks |->
           <<ks[i], Pick(s, SelectSeq(positions, LAMBDA j : keys[j] = ks[i]))>>]

\* util.separate(pred, coll): <<items where pred is false, items where it is
\* true>>; true_items is {el \in coll : pred(el)}
separate(true_items, coll) == <<coll \ true_items, coll \cap true_items>>

----------------------------------------------------------------------------
(* Configuration read through lookup(): nodesets and partitions *)

\* family is machineType.split("-")[0] of the nodeset's template
NodesetCfg ==
    [a |-> [tpu |-> FALSE, enable_placement |-> TRUE,  family |-> "c2", vmcount |-> 0, preserve_tpu |-> FALSE],
     b |-> [tpu |-> FALSE, enable_placement |-> FALSE, family |-> "c2", vmcount |-> 0, preserve_tpu |-> FALSE],
     d |-> [tpu |-> FALSE, enable_placement |-> TRUE,  family |-> "c2", vmcount |-> 0, preserve_tpu |-> FALSE],
     e |-> [tpu |-> FALSE, enable_placement |-> TRUE,  family |-> "e2", vmcount |-> 0, preserve_tpu |-> FALSE],
     f |-> [tpu |-> FALSE, enable_placement |-> TRUE,  family |-> "c2", vmcount |-> 0, preserve_tpu |-> FALSE],
     t |-> [tpu |-> TRUE,  enable_placement |-> FALSE, family |-> "tpu", vmcount |-> 2, preserve_tpu |-> TRUE],
     u |-> [tpu |-> TRUE,  enable_placement |-> FALSE, family |-> "tpu", vmcount |-> 2, preserve_tpu |-> FALSE]]

\* nodeset names in string order
NodesetOrder == <<"a", "b", "d", "e", "f", "t", "u">>

PartitionCfg ==
    [p  |-> [nodesets |-> {"a", "b", "e"}, nodesets_tpu |-> {}],
     q  |-> [nodesets |-> {"d", "f"}, nodesets_tpu |-> {}],
     tp |-> [nodesets |-> {}, nodesets_tpu |-> {"t"}],
     tq |-> [nodesets |-> {}, nodesets_tpu |-> {"u"}]]

node_nodeset_name(node) == node[1]
node_nodeset(node) == NodesetCfg[node_nodeset_name(node)]
node_prefix(node) == node[1]
node_is_tpu(node) == node_nodeset(node).tpu
partition_is_tpu(part) == PartitionCfg[part].nodesets_tpu # {}

\* lookup().nodeset_map(hostnames): nodeset name -> its hostnames, in list order
nodeset_map(node_list) ==
    groupby_unsorted(node_list, [i \in DOMAIN node_list |-> node_nodeset_name(node_list[i])])

----------------------------------------------------------------------------
(* sorted(): node names in string order *)

RECURSIVE UpperBound(_, _)
UpperBound(I, b) == IF \A y \in I : y <= b THEN b ELSE UpperBound(I, 2 * b)

SortedInts(I) ==
    LET B == UpperBound(I, 1)
    IN SelectSeq([i \in 1..B |-> i], LAMBDA i : i \in I)

sorted(S) ==
    LET of(ns) == LET idx == SortedInts({n[2] : n \in {m \in S : m[1] = ns}})
                  IN [k \in DOMAIN idx |-> <<ns, idx[k]>>]
    IN Flatten([j \in DOMAIN NodesetOrder |-> of(NodesetOrder[j])])

----------------------------------------------------------------------------
(* Provider: resourcePolicies().insert through ensure_execute.              *)
(* A response is what map_with_futures yields for one request: an operation *)
(* (exc = FALSE; op_error tells whether it completes with an error) or the  *)
(* raised HttpError (exc = TRUE) with the reasons of its error_details.     *)

OpOk         == [exc |-> FALSE, error_details |-> <<>>, op_error |-> FALSE]
OpError      == [exc |-> FALSE, error_details |-> <<>>, op_error |-> TRUE]
ExcExists    == [exc |-> TRUE, error_details |-> <<"alreadyExists">>, op_error |-> FALSE]
ExcQuota     == [exc |-> TRUE, error_details |-> <<"quotaExceeded">>, op_error |-> FALSE]
ExcNoDetails == [exc |-> TRUE, error_details |-> <<>>, op_error |-> FALSE]

\* an insert of an existing policy is refused as alreadyExists; an insert of a
\* new one is accepted, or refused for another reason
ProviderResponses(name, existing) ==
    IF name \in existing THEN {ExcExists}
    ELSE {OpOk, OpError, ExcQuota, ExcNoDetails}

----------------------------------------------------------------------------
(* Placement groups: resume.py:502-588 *)

INVALID_TYPES == {"e2", "t2d", "n1", "t2a", "m1", "m2", "m3"}

valid_placement_nodes(nodelist) ==
    \A i \in DOMAIN nodelist : node_nodeset(nodelist[i]).family \notin INVALID_TYPES

\* lookup().cfg.slurm_cluster_name
slurm_cluster_name == "c"

\* f"{cluster}-slurmgcp-managed-{nodeset}-{job_id}-{i}", as its pieces
PgName(nodeset_name, job_id, i) ==
    <<slurm_cluster_name, "-slurmgcp-managed-", nodeset_name, "-", job_id, "-", i>>

\* every raised request counted as failed
classify_result_strict(op) == IF ~op.exc THEN "submitted" ELSE "failed"

classify_result(op) ==
    IF ~op.exc THEN "submitted"
    ELSE IF \A k \in DOMAIN op.error_details : op.error_details[k] = "alreadyExists"
         THEN "redundant"
         ELSE "failed"

\* the early returns without the test of the list's length
PgEligibleAnySize(node_list) ==
    /\ node_nodeset(node_list[1]).enable_placement
    /\ valid_placement_nodes(node_list)

\* whether the call goes past the two early returns (lines 513-519)
PgEligible(node_list) ==
    /\ ~(Len(node_list) < 2)
    /\ node_nodeset(node_list[1]).enable_placement
    /\ valid_placement_nodes(node_list)

\* the groups dict of lines 523-526
PgGroups(node_list, job_id) ==
    LET cs == chunked(node_list, PLACEMENT_MAX_CNT)
    IN [i \in DOMAIN cs |->
           <<PgName(node_nodeset_name(node_list[1]), job_id, i - 1), cs[i]>>]

\* One call. resp maps each requested name to the provider's response.
\* The result records what the call returned (groups), the requests it
\* issued in order, the class of each outcome, the operations it waited
\* for, and whether it raised: line 559 unpacks each failed item's exception
\* as a pair, which raises TypeError as soon as one outcome is "failed".
create_nodeset_placement_groups(node_list, job_id, resp) ==
    LET no_pg == <<<<None, node_list>>>>
        groups == PgGroups(node_list, job_id)
        requests == DictKeys(groups)
        classes == [i \in DOMAIN requests |->
                       <<requests[i], classify_result(resp[requests[i]])>>]
        failed == SelectSeq(classes, LAMBDA c : c[2] = "failed")
        submitted == SelectSeq(classes, LAMBDA c : c[2] = "submitted")
    IN IF ~PgEligible(node_list)
       THEN [node_list |-> node_list, job_id |-> job_id, groups |-> no_pg,
             requests |-> <<>>, ops |-> <<>>, classes |-> <<>>, waited |-> <<>>,
             raised |-> FALSE]
       ELSE [node_list |-> node_list, job_id |-> job_id, groups |-> groups,
             requests |-> requests,
             ops |-> [i \in DOMAIN requests |-> <<requests[i], resp[requests[i]]>>],
             classes |-> classes,
             waited |-> IF failed # <<>> THEN <<>> ELSE DictKeys(submitted),
             raised |-> failed # <<>>]

\* create_placement_groups: pgs.update() of every nodeset's result, until a
\* call raises. acc is [pgs, calls, raised].
RECURSIVE PlacementLoop(_, _, _, _)
PlacementLoop(acc, items, job_id, resp) ==
    IF items = <<>> \/ acc.raised THEN acc
    ELSE LET r == create_nodeset_placement_groups(Head(items)[2], job_id, resp)
         IN PlacementLoop([pgs |-> DictUpdate(acc.pgs, r.groups),
                           calls |-> Append(acc.calls, r),
                           raised |-> r.raised],
                          Tail(items), job_id, resp)

create_placement_groups(node_list, job_id, resp) ==
    PlacementLoop([pgs |-> <<>>, calls |-> <<>>, raised |-> FALSE],
                  nodeset_map(node_list), job_id, resp)

\* the names create_placement_groups would request for this list
PlacementNames(node_list, job_id) ==
    LET m == nodeset_map(node_list)
    IN UNION {IF PgEligible(m[i][2]) THEN Range(DictKeys(PgGroups(m[i][2], job_id)))
              ELSE {} : i \in DOMAIN m}

----------------------------------------------------------------------------
(* group_nodes_bulk: resume.py:239-317 *)

Jobs(rd) == IF rd = None THEN <<>> ELSE rd[1]

JobGroup(job_id, partition, placement_groups) ==
    [job_id |-> job_id, partition |-> partition, placement_groups |-> placement_groups]

BulkChunk(chunk_nodes, prefix, chunk_idx, job_id, partition, placement_group) ==
    [nodes |-> chunk_nodes, prefix |-> prefix, chunk_idx |-> chunk_idx,
     job_id |-> job_id, partition |-> partition, placement_group |-> placement_group]

\* the placement groups made from the resumed nodes of the job only
JobGroupStepResumedOnly(acc, job, node_set, resp) ==
    LET nodes_resume == node_set \cap Range(job.nodes_alloc)
        created == create_placement_groups(sorted(nodes_resume), job.job_id, resp)
    IN IF partition_is_tpu(job.partition)
       THEN [acc EXCEPT !.job_groups =
                 DictPut(@, <<"job", job.job_id>>,
                         JobGroup(Some(job.job_id), Some(job.partition),
                                  <<<<None, sorted(nodes_resume)>>>>))]
       ELSE [job_groups |->
                 IF created.raised THEN acc.job_groups
                 ELSE DictPut(acc.job_groups, <<"job", job.job_id>>,
                              JobGroup(Some(job.job_id), Some(job.partition),
                                       created.pgs)),
             calls |-> acc.calls \o created.calls,
             raised |-> created.raised]

\* lines 255-272, one job: acc is [job_groups, calls, raised]
JobGroupStep(acc, job, node_set, resp) ==
    LET nodes_resume == node_set \cap Range(job.nodes_alloc)
        created == create_placement_groups(job.nodes_alloc, job.job_id, resp)
        restricted == [i \in DOMAIN created.pgs |->
                          <<created.pgs[i][1],
                            sorted(Range(created.pgs[i][2]) \cap nodes_resume)>>]
    IN IF partition_is_tpu(job.partition)
       THEN [acc EXCEPT !.job_groups =
                 DictPut(@, <<"job", job.job_id>>,
                         JobGroup(Some(job.job_id), Some(job.partition),
                                  <<<<None, sorted(nodes_resume)>>>>))]
       ELSE [job_groups |->
                 IF created.raised THEN acc.job_groups
                 ELSE DictPut(acc.job_groups, <<"job", job.job_id>>,
                              JobGroup(Some(job.job_id), Some(job.partition),
                                       restricted)),
             calls |-> acc.calls \o created.calls,
             raised |-> created.raised]

RECURSIVE JobGroupLoop(_, _, _, _)
JobGroupLoop(acc, jobs, node_set, resp) ==
    IF jobs = <<>> \/ acc.raised THEN acc
    ELSE JobGroupLoop(JobGroupStep(acc, Head(jobs), node_set, resp),
                      Tail(jobs), node_set, resp)

\* lines 274-287: the two jobless groups
AllJoblessNodes(node_set, rd) ==
    node_set \ UNION {Range(Jobs(rd)[i].nodes_alloc) : i \in DOMAIN Jobs(rd)}

JoblessGroups(acc, node_set, rd, resp) ==
    LET all_jobless_nodes == AllJoblessNodes(node_set, rd)
        sep == separate({n \in all_jobless_nodes : node_is_tpu(n)}, all_jobless_nodes)
        jobless_nodes == sep[1]
        jobless_nodes_tpu == sep[2]
        created == create_placement_groups(sorted(jobless_nodes), 0, resp)
        normal == DictPut(acc.job_groups, <<"Normal_None">>,
                          JobGroup(None, None, created.pgs))
    IN IF acc.raised THEN acc
       ELSE [job_groups |->
                 IF created.raised THEN acc.job_groups
                 ELSE DictPut(normal, <<"TPU_None">>,
                              JobGroup(None, None, <<<<None, sorted(jobless_nodes_tpu)>>>>)),
             calls |-> acc.calls \o created.calls,
             raised |-> created.raised]

\* the list left in one piece
chunk_nodes_whole(node_list) == <<node_list>>

\* lines 289-293
chunk_nodes(node_list) ==
    chunked(node_list,
            IF node_list # <<>> /\ node_is_tpu(node_list[1])
            THEN node_nodeset(node_list[1]).vmcount
            ELSE BULK_INSERT_LIMIT)

\* lines 295-308: the chunks of one job group, in order
JobChunks(job) ==
    Flatten([g \in DOMAIN job.placement_groups |->
        LET placement_group == job.placement_groups[g][1]
            pg_nodes == job.placement_groups[g][2]
            by_prefix == groupby_unsorted(pg_nodes,
                             [i \in DOMAIN pg_nodes |-> node_prefix(pg_nodes[i])])
        IN Flatten([q \in DOMAIN by_prefix |->
               LET cs == chunk_nodes(by_prefix[q][2])
               IN [i \in DOMAIN cs |->
                      BulkChunk(cs[i], by_prefix[q][1], i - 1,
                                job.job_id, job.partition, placement_group)]])])

\* f"{chunk.job_id}": the id, or the text None
FormatOptional(v) == IF v = None THEN "None" ELSE v[1]

\* lines 310-315: the f-strings, as their pieces
group_name(chunk) ==
    IF chunk.placement_group # None
    THEN <<chunk.prefix, ":job", FormatOptional(chunk.job_id), ":",
           chunk.placement_group, ":", chunk.chunk_idx>>
    ELSE IF chunk.job_id # None
         THEN <<chunk.prefix, ":job", FormatOptional(chunk.job_id), ":", chunk.chunk_idx>>
         ELSE <<chunk.prefix, ":", chunk.chunk_idx>>

\* The whole call: [job_groups, calls, raised, grouped]; grouped is the
\* returned dict (empty when a placement call raised and nothing is returned).
group_nodes_bulk(node_set, rd, resp) ==
    LET acc == JoblessGroups(
                   JobGroupLoop([job_groups |-> <<>>, calls |-> <<>>, raised |-> FALSE],
                                Jobs(rd), node_set, resp),
                   node_set, rd, resp)
        chunks == Flatten([j \in DOMAIN acc.job_groups |-> JobChunks(acc.job_groups[j][2])])
    IN [job_groups |-> acc.job_groups, calls |-> acc.calls, raised |-> acc.raised,
        grouped |-> IF acc.raised THEN <<>>
                    ELSE DictUpdate(<<>>, [i \in DOMAIN chunks |->
                                              <<group_name(chunks[i]), chunks[i]>>])]

\* every policy name the call may request
RequestedNames(node_set, rd) ==
    UNION ({IF partition_is_tpu(Jobs(rd)[i].partition) THEN {}
            ELSE PlacementNames(Jobs(rd)[i].nodes_alloc, Jobs(rd)[i].job_id)
              : i \in DOMAIN Jobs(rd)}
           \cup {PlacementNames(sorted({n \in AllJoblessNodes(node_set, rd) : ~node_is_tpu(n)}), 0)})

----------------------------------------------------------------------------
(* Inputs *)

MaxIdx == 2        \* node names per nodeset in the small universe
MaxResume == 4     \* nodes resumed in one run (small universe)
LargeOver == 1     \* how far the large inputs go past the size limits

\* job ids of the resume file, in file order
JobIds == <<1, 2>>

\* the nodes that are resumed are those of the partitions p and tp; the nodes
\* of partition q appear in the lists given to create_placement_groups
ResumedNodesets ==
    UNION {PartitionCfg[part].nodesets \cup PartitionCfg[part].nodesets_tpu :
              part \in {"p", "tp"}}

SmallNodes == {<<ns, i>> : ns \in ResumedNodesets, i \in 1..MaxIdx}

PartitionNodes(part) ==
    {n \in SmallNodes :
        n[1] \in PartitionCfg[part].nodesets \cup PartitionCfg[part].nodesets_tpu}

ResumeJobData(job_id, partition, nodes_alloc) ==
    [job_id |-> job_id, partition |-> partition, nodes_alloc |-> nodes_alloc]

\* a job of the resume file: it is allocated the first k nodes of every
\* nodeset of its partition, and some of them are being resumed
JobChoices(node_set, job_id) ==
    {j \in {ResumeJobData(job_id, pk[1], sorted({n \in PartitionNodes(pk[1]) : n[2] <= pk[2]})) :
               pk \in (DOMAIN PartitionCfg) \X (1..MaxIdx)} :
        Range(j.nodes_alloc) \cap node_set # {}}

RECURSIVE JobLists(_, _)
JobLists(node_set, n) ==
    IF n = 0 THEN {<<>>}
    ELSE LET shorter == JobLists(node_set, n - 1)
         IN shorter \cup
            {Append(x[1], x[2]) :
                x \in {y \in shorter \X JobChoices(node_set, JobIds[n]) : Len(y[1]) = n - 1}}

ResumeDataChoicesUpTo(node_set, n) ==
    {None} \cup {Some(js) : js \in JobLists(node_set, n)}

ResumeDataChoices(node_set) == ResumeDataChoicesUpTo(node_set, Len(JobIds))

NodeRange(ns, lo, hi) == {<<ns, i>> : i \in lo..hi}

\* node sets around the two size limits, jobless and inside one job
LargeInputs ==
    LET around(limit) == (limit - LargeOver)..(limit + LargeOver)
        job(n) == ResumeJobData(1, "p", sorted(NodeRange("a", 1, n)))
    IN {[nodes |-> NodeRange("a", 1, n), resume_data |-> None] :
            n \in around(PLACEMENT_MAX_CNT)}
       \cup {[nodes |-> NodeRange("b", 1, n), resume_data |-> Some(<<>>)] :
            n \in around(BULK_INSERT_LIMIT)}
       \cup {[nodes |-> NodeRange("a", 1, nm[1]) \cup NodeRange("b", 1, nm[2]),
              resume_data |-> None] :
            nm \in around(PLACEMENT_MAX_CNT) \X around(BULK_INSERT_LIMIT)}
       \cup {[nodes |-> NodeRange("t", 1, n), resume_data |-> None] :
            n \in around(PLACEMENT_MAX_CNT)}
       \cup {[nodes |-> NodeRange("a", k, n) \cup NodeRange("b", 1, 1),
              resume_data |-> Some(<<job(n)>>)] :
            <<k, n>> \in {1, PLACEMENT_MAX_CNT} \X around(PLACEMENT_MAX_CNT)}

----------------------------------------------------------------------------
(* Specification of group_nodes_bulk alone *)

InitState(ns, rd) ==
    /\ nodes = ns
    /\ resume_data = rd
    /\ policies \in {{}, RequestedNames(ns, rd)}
    /\ pc = "start"
    /\ job_groups = <<>>
    /\ pg_calls = <<>>
    /\ grouped_nodes = <<>>
    /\ tpu_start_data = <<>>
    /\ bi_inserts = <<>>
    /\ build_failed = None
    /\ bulk_ops = <<>>
    /\ op_state = <<>>
    /\ bulk_operations = <<>>
    /\ tpu_done = {}
    /\ recon = <<>>
    /\ events = <<>>
    /\ runs = <<>>
    /\ dws = None
    /\ tpu_pos = <<>>

InitSmall ==
    \E ns \in {x \in SUBSET SmallNodes : x # {} /\ Cardinality(x) <= MaxResume} :
        \E rd \in ResumeDataChoices(ns) : InitState(ns, rd)

InitLarge == \E in \in LargeInputs : InitState(in.nodes, in.resume_data)

\* resume.py:355: the call, with the provider's answer to every request
GroupNodes ==
    /\ pc = "start"
    /\ \E resp \in [RequestedNames(nodes, resume_data) ->
                       {OpOk, OpError, ExcExists, ExcQuota, ExcNoDetails}] :
          /\ \A name \in DOMAIN resp : resp[name] \in ProviderResponses(name, policies)
          /\ \E r \in {group_nodes_bulk(nodes, resume_data, resp)} :
             LET asked == UNION {Range(r.calls[i].requests) : i \in DOMAIN r.calls}
             IN /\ job_groups' = r.job_groups
                /\ pg_calls' = r.calls
                /\ grouped_nodes' = r.grouped
                /\ policies' = policies \cup {name \in asked : resp[name] = OpOk}
                /\ pc' = IF r.raised THEN "raised" ELSE "grouped"
    /\ UNCHANGED <<inputs, running>>

InitGroup == InitSmall \/ InitLarge
NextGroup == GroupNodes
SpecGroup == InitGroup /\ [][NextGroup]_vars

----------------------------------------------------------------------------
(* resume_nodes: resume.py:348-454, and down_nodes_notify_jobs: 457-474 *)

MaxRun == 2        \* nodes resumed in one run of resume_nodes

\* line 370: the chunks handed to start_tpu, not to create_instances_request
IsTpuChunk(c) == c.partition # None /\ partition_is_tpu(c.partition[1])

\* one scheduler command or provider call
Ev(cmd, node_set, job, group, reason) ==
    [cmd |-> cmd, nodes |-> node_set, job |-> job, group |-> group, reason |-> reason]

\* every job of the resume file commented and notified
down_nodes_notify_all_jobs(node_set, reason, rd) ==
    <<Ev("down", node_set, None, None, reason)>>
    \o Flatten([i \in DOMAIN Jobs(rd) |->
           <<Ev("comment", {}, Some(Jobs(rd)[i].job_id), None, reason),
             Ev("notify", {}, Some(Jobs(rd)[i].job_id), None, reason)>>])

\* lines 457-474: one mark-down command, then comment and notify per job
down_nodes_notify_jobs(node_set, reason, rd) ==
    LET hit == SelectSeq(Jobs(rd), LAMBDA job : Range(job.nodes_alloc) \cap node_set # {})
    IN <<Ev("down", node_set, None, None, reason)>>
       \o (IF rd = None THEN <<>>
           ELSE Flatten([i \in DOMAIN hit |->
                    <<Ev("comment", {}, Some(hit[i].job_id), None, reason),
                      Ev("notify", {}, Some(hit[i].job_id), None, reason)>>]))

\* the body with minCount always set
create_instances_request_min_count(chunk_node_list, partition_name, placement_group, job_id) ==
    [assert_ok |-> /\ 0 < Len(chunk_node_list)
                   /\ Len(chunk_node_list) <= BULK_INSERT_LIMIT
                   /\ placement_group # None => Len(chunk_node_list) <= PLACEMENT_MAX_CNT,
     count |-> Len(chunk_node_list),
     minCount |-> Some(1),
     perInstanceProperties |-> Range(chunk_node_list),
     placement_group |-> placement_group,
     job_id |-> job_id]

\* lines 160-195: the size assertions and the shape of the request body
create_instances_request(chunk_node_list, partition_name, placement_group, job_id) ==
    [assert_ok |-> /\ 0 < Len(chunk_node_list)
                   /\ Len(chunk_node_list) <= BULK_INSERT_LIMIT
                   /\ placement_group # None => Len(chunk_node_list) <= PLACEMENT_MAX_CNT,
     count |-> Len(chunk_node_list),
     minCount |-> IF placement_group # None THEN None ELSE Some(1),
     perInstanceProperties |-> Range(chunk_node_list),
     placement_group |-> placement_group,
     job_id |-> job_id]

\* lines 365-379: acc is [tpu_start_data, bi_inserts, raised]; raised is None or
\* the group at which the loop stopped. raising is the position of the chunk
\* for which a lookup made while the request is built raises (0: none does);
\* a failed size assertion raises as well.
RECURSIVE BuildLoop(_, _, _, _)
BuildLoop(acc, grouped, i, raising) ==
    IF i > Len(grouped) \/ acc.raised # None THEN acc
    ELSE LET group == grouped[i][1]
             chunk == grouped[i][2]
             req == create_instances_request(chunk.nodes, chunk.partition,
                                             chunk.placement_group, chunk.job_id)
         IN BuildLoop(
                IF IsTpuChunk(chunk)
                THEN [acc EXCEPT !.tpu_start_data =
                          Append(@, [tpu |-> chunk.prefix, node |-> chunk.nodes])]
                ELSE IF raising = i \/ ~req.assert_ok
                     THEN [acc EXCEPT !.raised = Some(group)]
                     ELSE [acc EXCEPT !.bi_inserts = DictPut(@, group, req)],
                grouped, i + 1, raising)

BuildRequests ==
    /\ pc = "grouped"
    /\ \E raising \in {0} \cup {i \in DOMAIN grouped_nodes : ~IsTpuChunk(grouped_nodes[i][2])} :
         \E r \in {BuildLoop([tpu_start_data |-> <<>>, bi_inserts |-> <<>>, raised |-> None],
                             grouped_nodes, 1, raising)} :
            /\ tpu_start_data' = r.tpu_start_data
            /\ bi_inserts' = r.bi_inserts
            /\ build_failed' = r.raised
            /\ pc' = IF r.raised # None THEN "raised" ELSE "built"
    /\ UNCHANGED <<inputs, policies, grouping, bulk_ops, op_state, bulk_operations,
                   tpu_done, recon, events, runs, dws, tpu_pos>>

Started(ops) == SelectSeq(ops, LAMBDA o : o[2] = "operation")
Failed(ops) == SelectSeq(ops, LAMBDA o : o[2] = "HttpError")

\* the orders in which n concurrent calls can reach the provider
Orders(n) == {f \in [1..n -> 1..n] : \A i, j \in 1..n : f[i] = f[j] => i = j}

\* lines 382-396: every built request is executed once, by the threads of
\* map_with_futures and so in any order; the ones that raised are then marked
\* down, in the order of the requests. ops[i] is what map_with_futures yields
\* for the i-th request, the started operation or the raised HttpError;
\* order[k] is the request that reaches the provider k-th.
DispatchEvents(ops, order, grouped, rd) ==
    [k \in DOMAIN ops |-> Ev("submit", {}, None, ops[order[k]][1], None)]
    \o Flatten([i \in DOMAIN Failed(ops) |->
           down_nodes_notify_jobs(Range(DictGet(grouped, Failed(ops)[i][1]).nodes),
                                  <<"GCP Error", "HttpError">>, rd)])

Dispatch ==
    /\ pc = "built"
    /\ \E resp \in [DOMAIN bi_inserts -> {"operation", "HttpError"}] :
         \E ops \in {[i \in DOMAIN bi_inserts |-> <<bi_inserts[i][1], resp[i]>>]} :
           \E order \in Orders(Len(bi_inserts)) :
            /\ bulk_ops' = ops
            /\ op_state' = [i \in DOMAIN Started(ops) |-> "running"]
            /\ events' = events \o DispatchEvents(ops, order, grouped_nodes, resume_data)
            /\ pc' = IF Started(ops) = <<>> THEN "tpu" ELSE "waiting"
    /\ UNCHANGED <<inputs, policies, grouping, tpu_start_data, bi_inserts, build_failed,
                   bulk_operations, tpu_done, recon, runs, dws, tpu_pos>>

\* provider: a running bulk operation completes, with or without an error
OpCompletes ==
    /\ pc = "waiting"
    /\ \E i \in DOMAIN op_state : \E result \in {"done", "error"} :
          /\ op_state[i] = "running"
          /\ op_state' = [op_state EXCEPT ![i] = result]
    /\ UNCHANGED <<inputs, policies, pc, grouping, tpu_start_data, bi_inserts, build_failed, bulk_ops,
                   bulk_operations, tpu_done, recon, events, runs, dws, tpu_pos>>

\* line 407: wait_for_operation on the started operations, one after the other
WaitOp ==
    /\ pc = "waiting"
    /\ LET i == Len(bulk_operations) + 1
           group == Started(bulk_ops)[i][1]
       IN /\ op_state[i] # "running"
          /\ bulk_operations' = Append(bulk_operations, <<group, op_state[i]>>)
          /\ events' = Append(events, Ev("wait", {}, None, group, None))
          /\ pc' = IF i = Len(op_state) THEN "tpu" ELSE "waiting"
    /\ UNCHANGED <<inputs, policies, grouping, tpu_start_data, bi_inserts, build_failed, bulk_ops,
                   op_state, tpu_done, recon, runs, dws, tpu_pos>>

\* the pod is started when it is present, whatever preserve_tpu says
start_tpu_ignoring_preserve(data, present, ok) ==
    IF Len(data.node) = 1
    THEN <<Ev("tpu_get", Range(data.node), None, None, Some(present))>>
         \o (IF ~present
             THEN <<Ev("tpu_create", Range(data.node), None, None, None)>>
             ELSE <<Ev("tpu_start", Range(data.node), None, None, None)>>)
         \o (IF ok THEN <<>> ELSE <<Ev("log_error", Range(data.node), None, None, None)>>)
    ELSE <<Ev("tpu_create", Range(data.node), None, None, None)>>
         \o (IF ok THEN <<>> ELSE <<Ev("log_error", Range(data.node), None, None, None)>>)

\* lines 320-345: the calls start_tpu makes and the errors it logs. present
\* tells whether get_node finds the pod (the lookup event keeps the answer as
\* its reason), ok whether the create or start call it makes returns true
start_tpu(data, present, ok) ==
    IF Len(data.node) = 1
    THEN <<Ev("tpu_get", Range(data.node), None, None, Some(present))>>
         \o (IF ~present
             THEN <<Ev("tpu_create", Range(data.node), None, None, None)>>
                  \o (IF ok THEN <<>>
                      ELSE <<Ev("log_error", Range(data.node), None, None, None)>>)
             ELSE IF NodesetCfg[data.tpu].preserve_tpu
                  THEN <<Ev("tpu_start", Range(data.node), None, None, None)>>
                       \o (IF ok THEN <<>>
                           ELSE <<Ev("log_error", Range(data.node), None, None, None)>>)
                  ELSE <<>>)
    ELSE <<Ev("tpu_create", Range(data.node), None, None, None)>>
         \o (IF ok THEN <<>> ELSE <<Ev("log_error", Range(data.node), None, None, None)>>)

\* line 411 and lines 320-345: the threads of execute_with_futures run
\* start_tpu on the entries of tpu_start_data, and a step is the next call or
\* log line of one of them, so the calls of two entries interleave. tpu_pos
\* keeps, for an entry whose call is under way, how many of its events have
\* happened (n) and what get_node answered (present); ok, the result of the
\* create or start call, decides whether an error line follows it.
StartTpuStep(k) ==
    \E present \in (IF k \in DOMAIN tpu_pos THEN {tpu_pos[k].present}
                    ELSE IF Len(tpu_start_data[k].node) = 1 THEN BOOLEAN ELSE {FALSE}) :
      \E ok \in BOOLEAN :
        \E evs \in {start_tpu(tpu_start_data[k], present, ok)} :
          \E n \in {IF k \in DOMAIN tpu_pos THEN tpu_pos[k].n ELSE 0} :
             /\ n < Len(evs)
             /\ events' = Append(events, evs[n + 1])
             /\ tpu_pos' = [j \in DOMAIN tpu_pos \cup {k} |->
                               IF j = k THEN [present |-> present, n |-> n + 1]
                               ELSE tpu_pos[j]]
             /\ tpu_done' = IF n + 1 = Len(evs) THEN tpu_done \cup {k} ELSE tpu_done

\* start_tpu running while the bulk operations are still awaited
StartTpuWhileWaiting ==
    /\ pc \in {"waiting", "tpu"}
    /\ \E k \in DOMAIN tpu_start_data \ tpu_done : StartTpuStep(k)
    /\ UNCHANGED <<inputs, policies, pc, grouping, tpu_start_data, bi_inserts, build_failed, bulk_ops,
                   op_state, bulk_operations, recon, runs, dws>>

\* line 411: execute_with_futures runs start_tpu on every entry
StartTpu ==
    /\ pc = "tpu"
    /\ \E k \in DOMAIN tpu_start_data \ tpu_done : StartTpuStep(k)
    /\ UNCHANGED <<inputs, policies, pc, grouping, tpu_start_data, bi_inserts, build_failed, bulk_ops,
                   op_state, bulk_operations, recon, runs, dws>>

TpuJoin ==
    /\ pc = "tpu"
    /\ tpu_done = DOMAIN tpu_start_data
    /\ pc' = "reconcile"
    /\ UNCHANGED <<inputs, policies, grouping, running>>

\* provider: the per-instance insert operations of one bulk operation. An
\* operation is [node, error]: error is None when the operation has no "error"
\* key, or Some(the list of the codes of its errors).
ERROR_CODES ==
    {None, Some(<<"QUOTA_EXCEEDED">>), Some(<<"RESOURCE_ALREADY_EXISTS">>),
     Some(<<"RESOURCE_ALREADY_EXISTS", "QUOTA_EXCEEDED">>)}

\* "+".join(codes): the codes with a "+" between two of them
RECURSIVE JoinCodes(_)
JoinCodes(codes) ==
    IF Len(codes) <= 1 THEN codes
    ELSE <<Head(codes), "+">> \o JoinCodes(Tail(codes))

InsertOperations(chunk_node_list) ==
    {SelectSeq([i \in DOMAIN chunk_node_list |->
                   [node |-> chunk_node_list[i], listed |-> out[i][1], error |-> out[i][2]]],
               LAMBDA op : op.listed) :
        out \in [DOMAIN chunk_node_list -> BOOLEAN \X ERROR_CODES]}

\* line 446: a bucket of failed inserts is marked down unless its joined code
\* is RESOURCE_ALREADY_EXISTS
MarkedDownCodeAlways(code) == TRUE

MarkedDownCode(code) == code # <<"RESOURCE_ALREADY_EXISTS">>

\* lines 424-454 for one group: [group, ops, events, ready_nodes]
reconcile_group(group, ops, rd) ==
    LET sep == <<SelectSeq(ops, LAMBDA op : ~(op.error # None)),
                 SelectSeq(ops, LAMBDA op : op.error # None)>>
        successful_inserts == sep[1]
        failed_inserts == sep[2]
        by_error_inserts == groupby_unsorted(failed_inserts,
                                [i \in DOMAIN failed_inserts |-> JoinCodes(failed_inserts[i].error[1])])
        bucket(b) ==
            LET failed_nodes == {by_error_inserts[b][2][k].node :
                                    k \in DOMAIN by_error_inserts[b][2]}
                msg == by_error_inserts[b][2][1].error[1]
            IN IF MarkedDownCode(by_error_inserts[b][1])
               THEN down_nodes_notify_jobs(failed_nodes, <<"GCP Error", msg>>, rd)
               ELSE <<>>
    IN [group |-> group,
        ops |-> ops,
        events |-> <<Ev("get_insert_operations", {}, None, group, None)>>
                   \o Flatten([b \in DOMAIN by_error_inserts |-> bucket(b)]),
        ready_nodes |-> {successful_inserts[k].node : k \in DOMAIN successful_inserts}]

Reconcile ==
    /\ pc = "reconcile"
    /\ Len(recon) < Len(bulk_operations)
    /\ LET group == bulk_operations[Len(recon) + 1][1]
       IN \E ops \in InsertOperations(DictGet(grouped_nodes, group).nodes) :
            \E r \in {reconcile_group(group, ops, resume_data)} :
               /\ recon' = Append(recon, r)
               /\ events' = events \o r.events
    /\ UNCHANGED <<inputs, policies, pc, grouping, tpu_start_data, bi_inserts, build_failed, bulk_ops,
                   op_state, bulk_operations, tpu_done, runs, dws, tpu_pos>>

Return ==
    /\ pc = "reconcile"
    /\ Len(recon) = Len(bulk_operations)
    /\ pc' = "done"
    /\ UNCHANGED <<inputs, policies, grouping, running>>

\* the resume file of a run: none, no job, or one job that is allocated
\* either some of the resumed nodes of its partition or the first nodes of
\* every nodeset of its partition
RunResumeData(node_set) ==
    ResumeDataChoicesUpTo(node_set, 1)
    \cup {Some(<<ResumeJobData(JobIds[1], part, sorted(alloc))>>) :
             <<part, alloc>> \in {x \in (DOMAIN PartitionCfg) \X (SUBSET node_set) :
                                    x[2] # {} /\ x[2] \subseteq PartitionNodes(x[1])}}

InitRun ==
    \E ns \in {x \in SUBSET SmallNodes : x # {} /\ Cardinality(x) <= MaxRun} :
        \E rd \in RunResumeData(ns) : InitState(ns, rd)

Init == InitRun
Next ==
    \/ GroupNodes
    \/ BuildRequests
    \/ Dispatch
    \/ OpCompletes
    \/ WaitOp
    \/ StartTpu
    \/ TpuJoin
    \/ Reconcile
    \/ Return
Spec == Init /\ [][Next]_vars

\* the steps of the script that follow the grouping; OpCompletes is the
\* provider's, and an operation may stay running for ever
Program ==
    \/ BuildRequests
    \/ Dispatch
    \/ WaitOp
    \/ StartTpu
    \/ TpuJoin
    \/ Reconcile
    \/ Return

\* runs on one or two nodes of the nodesets a, b and t
InitLive ==
    \E ns \in {x \in SUBSET (NodeRange("a", 1, MaxIdx) \cup NodeRange("b", 1, MaxIdx)
                              \cup NodeRange("t", 1, 1)) :
                  x # {} /\ Cardinality(x) <= MaxRun} :
        \E rd \in RunResumeData(ns) : InitState(ns, rd)

\* once the nodes are grouped, the script goes on whenever it can take a step
SpecLive == InitLive /\ [][Next]_vars /\ WF_vars(Program)

----------------------------------------------------------------------------
(* create_nodeset_placement_groups called twice with the same arguments *)

\* the calls' arguments: nodes holds the node list; the job the list is
\* allocated to is the one job of resume_data, job id 0 when there is none
PgNodeList == sorted(nodes)
PgJobId == IF resume_data = None THEN 0 ELSE resume_data[1][1].job_id

\* the list of 160 nodes is the spec's example of two groups
PgExample == 160

PgSizes ==
    (1..MaxIdx) \cup {PgExample}
    \cup ((PLACEMENT_MAX_CNT - LargeOver)..(PLACEMENT_MAX_CNT + LargeOver))
    \cup ((2 * PLACEMENT_MAX_CNT - LargeOver)..(2 * PLACEMENT_MAX_CNT + LargeOver))

InitPG ==
    \E ns \in PartitionCfg["p"].nodesets : \E n \in PgSizes : \E job_id \in {0} \cup Range(JobIds) :
        \E existing \in SUBSET PlacementNames(sorted(NodeRange(ns, 1, n)), job_id) :
            /\ nodes = NodeRange(ns, 1, n)
            /\ resume_data = IF job_id = 0 THEN None
                             ELSE Some(<<ResumeJobData(job_id, "p", sorted(NodeRange(ns, 1, n)))>>)
            /\ policies = existing
            /\ pc = "start"
            /\ job_groups = <<>>
            /\ pg_calls = <<>>
            /\ grouped_nodes = <<>>
            /\ tpu_start_data = <<>>
            /\ bi_inserts = <<>>
            /\ build_failed = None
            /\ bulk_ops = <<>>
            /\ op_state = <<>>
            /\ bulk_operations = <<>>
            /\ tpu_done = {}
            /\ recon = <<>>
            /\ events = <<>>
            /\ runs = <<>>
            /\ dws = None
            /\ tpu_pos = <<>>

\* one call, with the provider's answer to every request; a policy exists
\* once the operation that creates it has completed without error
PlacementCall ==
    /\ pc \in {"start", "pg"}
    /\ Len(pg_calls) < 2
    /\ \E resp \in [PlacementNames(PgNodeList, PgJobId) ->
                       {OpOk, OpError, ExcExists, ExcQuota, ExcNoDetails}] :
          /\ \A name \in DOMAIN resp : resp[name] \in ProviderResponses(name, policies)
          /\ \E r \in {create_nodeset_placement_groups(PgNodeList, PgJobId, resp)} :
                /\ pg_calls' = Append(pg_calls, r)
                /\ policies' = policies \cup {name \in Range(r.requests) : resp[name] = OpOk}
                /\ pc' = "pg"
    /\ UNCHANGED <<inputs, job_groups, grouped_nodes, running>>

NextPG == PlacementCall
SpecPG == InitPG /\ [][NextPG]_vars

----------------------------------------------------------------------------
(* down_nodes_notify_jobs called on a node set, with any resume file *)

DownReason == <<"GCP Error", "HttpError">>

InitDown ==
    \E ns \in {x \in SUBSET SmallNodes : x # {} /\ Cardinality(x) <= MaxResume} :
        \E rd \in ResumeDataChoices(SmallNodes) : InitState(ns, rd)

DownNodesNotifyJobs ==
    /\ pc = "start"
    /\ events' = down_nodes_notify_jobs(nodes, DownReason, resume_data)
    /\ pc' = "done"
    /\ UNCHANGED <<inputs, policies, grouping, tpu_start_data, bi_inserts, build_failed,
                   bulk_ops, op_state, bulk_operations, tpu_done, recon, runs, dws, tpu_pos>>

NextDown == DownNodesNotifyJobs
SpecDown == InitDown /\ [][NextDown]_vars

----------------------------------------------------------------------------
(* hold_job: nothing in resume.py calls it; it is there for other scripts *)

\* lines 477-480: the job is held, then its comment is set to the reason
\* ("comment" in the events is the admincomment of down_nodes_notify_jobs)
hold_job(job_id, reason) ==
    <<Ev("hold", {}, Some(job_id), None, None),
      Ev("update_comment", {}, Some(job_id), None, reason)>>

HoldReasons == {DownReason, <<"GCP Error", "QUOTA_EXCEEDED">>}

InitHold == InitState({}, None)

HoldJob ==
    /\ pc = "start"
    /\ \E job_id \in Range(JobIds) : \E reason \in HoldReasons :
          events' = hold_job(job_id, reason)
    /\ pc' = "done"
    /\ UNCHANGED <<inputs, policies, grouping, tpu_start_data, bi_inserts, build_failed,
                   bulk_ops, op_state, bulk_operations, tpu_done, recon, runs, dws, tpu_pos>>

NextHold == HoldJob
SpecHold == InitHold /\ [][NextHold]_vars

----------------------------------------------------------------------------
(* create_placement_groups step by step: resume.py:502-575.               *)
(* nodes holds the node list, pg_calls the calls of                        *)
(* create_nodeset_placement_groups that have ended, bulk_ops the ops dict  *)
(* of the call in progress, op_state the state of the operations it        *)
(* submitted, bulk_operations the ones it has waited for.                  *)

PlaceItems == nodeset_map(PgNodeList)
PlaceList == PlaceItems[Len(pg_calls) + 1][2]
PlaceResp == [name \in {bulk_ops[i][1] : i \in DOMAIN bulk_ops} |-> DictGet(bulk_ops, name)]
PlaceCall == create_nodeset_placement_groups(PlaceList, PgJobId, PlaceResp)

PlaceSizes == (0..MaxIdx) \cup {PLACEMENT_MAX_CNT + LargeOver}

InitPlace ==
    \E n \in PlaceSizes : \E k \in 0..MaxIdx : \E job_id \in {0, JobIds[1]} :
        \E ns \in {NodeRange("d", 1, n) \cup NodeRange("f", 1, k)} :
            \E existing \in SUBSET PlacementNames(sorted(ns), job_id) :
                /\ ns # {}
                /\ nodes = ns
                /\ resume_data = IF job_id = 0 THEN None
                                 ELSE Some(<<ResumeJobData(job_id, "q", sorted(ns))>>)
                /\ policies = existing
                /\ pc = "start"
                /\ job_groups = <<>>
                /\ pg_calls = <<>>
                /\ grouped_nodes = <<>>
                /\ tpu_start_data = <<>>
                /\ bi_inserts = <<>>
                /\ build_failed = None
                /\ bulk_ops = <<>>
                /\ op_state = <<>>
                /\ bulk_operations = <<>>
                /\ tpu_done = {}
                /\ recon = <<>>
                /\ events = <<>>
                /\ runs = <<>>
                /\ dws = None
                /\ tpu_pos = <<>>

\* lines 535-540: map_with_futures executes the requests, in any order
PlaceSubmit ==
    /\ pc = "start"
    /\ Len(pg_calls) < Len(PlaceItems)
    /\ PgEligible(PlaceList)
    /\ \E name \in Range(DictKeys(PgGroups(PlaceList, PgJobId))) :
          /\ ~DictHas(bulk_ops, name)
          /\ \E resp \in ProviderResponses(name, policies) :
                bulk_ops' = Append(bulk_ops, <<name, resp>>)
          /\ events' = Append(events, Ev("pg_submit", {}, None, name, None))
    /\ UNCHANGED <<inputs, policies, pc, grouping, tpu_start_data, bi_inserts, build_failed,
                   op_state, bulk_operations, tpu_done, recon, runs, dws, tpu_pos>>

\* lines 511-519 and 542-560: the early return, or the outcomes classified
PlaceClassify ==
    /\ pc = "start"
    /\ Len(pg_calls) < Len(PlaceItems)
    /\ PgEligible(PlaceList) => Len(bulk_ops) = Len(PgGroups(PlaceList, PgJobId))
    /\ \E r \in {PlaceCall} :
          IF ~PgEligible(PlaceList) \/ r.raised
          THEN /\ pg_calls' = Append(pg_calls, r)
               /\ bulk_ops' = <<>>
               /\ pc' = IF r.raised THEN "raised" ELSE "start"
               /\ events' = Append(events, Ev(IF r.raised THEN "pg_raise" ELSE "pg_return",
                                              {}, None, None, None))
               /\ UNCHANGED op_state
          ELSE /\ op_state' = [i \in DOMAIN r.waited |-> "running"]
               /\ pc' = "pg_wait"
               /\ UNCHANGED <<pg_calls, bulk_ops, events>>
    /\ UNCHANGED <<inputs, policies, job_groups, grouped_nodes, tpu_start_data, bi_inserts,
                   build_failed, bulk_operations, tpu_done, recon, runs, dws, tpu_pos>>

\* provider: a submitted operation completes; the policy exists when it
\* completes without error
PlaceOpCompletes ==
    /\ pc = "pg_wait"
    /\ \E i \in DOMAIN op_state :
          /\ op_state[i] = "running"
          /\ LET name == PlaceCall.waited[i]
             IN IF PlaceResp[name].op_error
                THEN /\ op_state' = [op_state EXCEPT ![i] = "error"]
                     /\ UNCHANGED policies
                ELSE /\ op_state' = [op_state EXCEPT ![i] = "done"]
                     /\ policies' = policies \cup {name}
    /\ UNCHANGED <<inputs, pc, grouping, tpu_start_data, bi_inserts, build_failed, bulk_ops,
                   bulk_operations, tpu_done, recon, events, runs, dws, tpu_pos>>

\* line 561: wait_for_operation on the submitted operations, one after the
\* other
PlaceWaitOp ==
    /\ pc = "pg_wait"
    /\ Len(bulk_operations) < Len(op_state)
    /\ LET i == Len(bulk_operations) + 1
           name == PlaceCall.waited[i]
       IN /\ op_state[i] # "running"
          /\ bulk_operations' = Append(bulk_operations, <<name, op_state[i]>>)
          /\ events' = Append(events, Ev("pg_wait", {}, None, name, None))
    /\ UNCHANGED <<inputs, policies, pc, grouping, tpu_start_data, bi_inserts, build_failed,
                   bulk_ops, op_state, tpu_done, recon, runs, dws, tpu_pos>>

\* lines 562-575: once every operation has been waited for, the ones that
\* have an error are logged, in the order of the operations; then the call
\* returns its groups and line 506 goes to the next nodeset
PlaceReturn ==
    /\ pc = "pg_wait"
    /\ Len(bulk_operations) = Len(op_state)
    /\ pg_calls' = Append(pg_calls, PlaceCall)
    /\ events' = events
                   \o [i \in DOMAIN SelectSeq(bulk_operations, LAMBDA o : o[2] = "error") |->
                         Ev("pg_log_error", {}, None,
                            SelectSeq(bulk_operations, LAMBDA o : o[2] = "error")[i][1], None)]
                   \o <<Ev("pg_return", {}, None, None, None)>>
    /\ bulk_ops' = <<>>
    /\ op_state' = <<>>
    /\ bulk_operations' = <<>>
    /\ pc' = "start"
    /\ UNCHANGED <<inputs, policies, job_groups, grouped_nodes, tpu_start_data, bi_inserts,
                   build_failed, tpu_done, recon, runs, dws, tpu_pos>>

\* line 507
PlaceDone ==
    /\ pc = "start"
    /\ Len(pg_calls) = Len(PlaceItems)
    /\ pc' = "done"
    /\ UNCHANGED <<inputs, policies, grouping, running>>

NextPlace ==
    \/ PlaceSubmit
    \/ PlaceClassify
    \/ PlaceOpCompletes
    \/ PlaceWaitOp
    \/ PlaceReturn
    \/ PlaceDone
SpecPlace == InitPlace /\ [][NextPlace]_vars

----------------------------------------------------------------------------
(* Two invocations on the same resume file, with two resumed node sets *)

\* a job allocated more nodes than one placement group holds, a few of them
\* resumed
LargeJobInputs ==
    LET last == PLACEMENT_MAX_CNT + LargeOver
        job == ResumeJobData(JobIds[1], "p", sorted(NodeRange("a", 1, last)))
    IN {[nodes |-> ns, resume_data |-> Some(<<job>>)] :
           ns \in {{<<"a", 1>>}, {<<"a", last>>}, {<<"a", 1>>, <<"a", last>>},
                   {<<"a", PLACEMENT_MAX_CNT>>, <<"a", last>>}}}

InitTwo ==
    \/ InitRun
    \/ \E in \in LargeJobInputs : InitState(in.nodes, in.resume_data)

\* the second invocation of the script: another node set given on the command
\* line, the same resume file and the policies the first one left; the result
\* of the first is kept, and group_nodes_bulk then runs again (GroupNodes)
ResumeAgain ==
    /\ pc = "grouped"
    /\ runs = <<>>
    /\ \E ns \in {x \in SUBSET SmallNodes : x # {} /\ Cardinality(x) <= MaxRun}
                 \cup {in.nodes : in \in {y \in LargeJobInputs : y.resume_data = resume_data}} :
          nodes' = ns
    /\ runs' = <<[nodes |-> nodes, grouped_nodes |-> grouped_nodes]>>
    /\ pc' = "start"
    /\ UNCHANGED <<resume_data, policies, job_groups, pg_calls, grouped_nodes, tpu_start_data,
                   bi_inserts, build_failed, bulk_ops, op_state, bulk_operations, tpu_done,
                   recon, events, dws, tpu_pos>>

NextTwo == GroupNodes \/ ResumeAgain
SpecTwo == InitTwo /\ [][NextTwo]_vars

----------------------------------------------------------------------------
(* resume_nodes on the nodes of a job of an accelerator partition *)

MaxTpuIdx == 3     \* nodes of an accelerator nodeset

TpuPartitionNodes(part) ==
    {<<ns, i>> : ns \in PartitionCfg[part].nodesets_tpu, i \in 1..MaxTpuIdx}

\* one job of an accelerator partition, some of its nodes resumed, with or
\* without one jobless node of an ordinary nodeset
InitTpu ==
    \E part \in {x \in DOMAIN PartitionCfg : partition_is_tpu(x)} :
      \E alloc \in SUBSET TpuPartitionNodes(part) \ {{}} :
        \E resumed \in SUBSET alloc \ {{}} :
          \E extra \in SUBSET NodeRange("a", 1, 1) :
             InitState(resumed \cup extra,
                       Some(<<ResumeJobData(JobIds[1], part, sorted(alloc))>>))

SpecTpu == InitTpu /\ [][Next]_vars

----------------------------------------------------------------------------
(* dws_flex_duration *)

\* datetime.timedelta, as Python normalises it: whole seconds and
\* microseconds in 0..999999
timedelta(weeks, seconds) == [seconds |-> weeks * 604800 + seconds, microseconds |-> 0]

\* x <= y on timedelta
timedelta_le(x, y) ==
    \/ x.seconds < y.seconds
    \/ x.seconds = y.seconds /\ x.microseconds <= y.microseconds

\* bool(x) on timedelta: false for timedelta(0) only
timedelta_bool(x) == x.seconds # 0 \/ x.microseconds # 0

\* int(x.total_seconds()): the fraction is dropped, towards zero
int_total_seconds(x) ==
    IF x.seconds >= 0 \/ x.microseconds = 0 THEN x.seconds ELSE x.seconds + 1

\* the job duration accepted only strictly inside the limits
dws_flex_duration_exclusive(dws_flex, job_id, job) ==
    IF /\ dws_flex.use_job_duration
       /\ job_id # None
       /\ job # None
       /\ job[1].duration # None
       /\ timedelta_bool(job[1].duration[1])
       /\ ~timedelta_le(job[1].duration[1], timedelta(0, 30))
       /\ ~timedelta_le(timedelta(2, 0), job[1].duration[1])
    THEN int_total_seconds(job[1].duration[1])
    ELSE dws_flex.max_run_duration

\* lines 144-151. job is what lookup().job(job_id) returns: None, or the job,
\* whose duration is None or a timedelta
dws_flex_duration(dws_flex, job_id, job) ==
    IF /\ dws_flex.use_job_duration
       /\ job_id # None
       /\ job # None
       /\ job[1].duration # None
       /\ timedelta_bool(job[1].duration[1])
    THEN IF /\ timedelta_le(timedelta(0, 30), job[1].duration[1])
            /\ timedelta_le(job[1].duration[1], timedelta(2, 0))
         THEN int_total_seconds(job[1].duration[1])
         ELSE dws_flex.max_run_duration
    ELSE dws_flex.max_run_duration

DwsNear == 1       \* how far around each limit the durations are taken

\* durations at and around zero and the two limits, with and without a
\* fraction of a second
DwsDurations ==
    {[seconds |-> sec, microseconds |-> us] :
        sec \in ((0 - DwsNear)..DwsNear)
                 \cup ((timedelta(0, 30).seconds - DwsNear)..(timedelta(0, 30).seconds + DwsNear))
                 \cup ((timedelta(2, 0).seconds - DwsNear)..(timedelta(2, 0).seconds + DwsNear)),
        us \in {0, 1, 999999}}

\* nodeset.dws_flex
DwsFlexCfg ==
    {[use_job_duration |-> use, max_run_duration |-> timedelta(1, 0).seconds] : use \in BOOLEAN}

DwsJobs == {None, Some([duration |-> None])} \cup {Some([duration |-> Some(d)]) : d \in DwsDurations}

InitDws ==
    /\ \E cfg \in DwsFlexCfg : \E job_id \in {None, Some(0), Some(JobIds[1])} :
         \E job \in DwsJobs :
            dws = Some([dws_flex |-> cfg, job_id |-> job_id, job |-> job, result |-> None])
    /\ nodes = {}
    /\ resume_data = None
    /\ policies = {}
    /\ pc = "start"
    /\ job_groups = <<>>
    /\ pg_calls = <<>>
    /\ grouped_nodes = <<>>
    /\ tpu_start_data = <<>>
    /\ bi_inserts = <<>>
    /\ build_failed = None
    /\ bulk_ops = <<>>
    /\ op_state = <<>>
    /\ bulk_operations = <<>>
    /\ tpu_done = {}
    /\ recon = <<>>
    /\ events = <<>>
    /\ runs = <<>>
    /\ tpu_pos = <<>>

\* line 142: the call
DwsFlexDuration ==
    /\ pc = "start"
    /\ dws # None
    /\ dws' = Some([dws[1] EXCEPT !.result =
                        Some(dws_flex_duration(dws[1].dws_flex, dws[1].job_id, dws[1].job))])
    /\ pc' = "done"
    /\ UNCHANGED <<inputs, policies, grouping, tpu_start_data, bi_inserts, build_failed,
                   bulk_ops, op_state, bulk_operations, tpu_done, recon, events, runs,
                   tpu_pos>>

NextDws == DwsFlexDuration
SpecDws == InitDws /\ [][NextDws]_vars

----------------------------------------------------------------------------
(* Claims *)

Chunks == DictValues(grouped_nodes)
ChunkNodeSet(c) == Range(c.nodes)
GroupedNodeSet == UNION {ChunkNodeSet(Chunks[i]) : i \in DOMAIN Chunks}

\* C1: the chunks returned by group_nodes_bulk together contain every node of
\* the input set and no node outside it.
C1_ChunksCoverInput == pc = "grouped" => GroupedNodeSet = nodes

\* C2: no node appears in more than one chunk returned by group_nodes_bulk,
\* also when a node is in the allocation of more than one job.
C2_ChunksDisjoint ==
    pc = "grouped" =>
        \A i, j \in DOMAIN Chunks :
            i # j => ChunkNodeSet(Chunks[i]) \cap ChunkNodeSet(Chunks[j]) = {}

\* C7: every chunk of conventional nodes, and every chunk passed to
\* create_instances_request, has 1..150 nodes when it carries a placement
\* group and 1..5000 nodes otherwise, so neither size assertion can fail.
C7_ChunkSizes ==
    \A i \in DOMAIN Chunks :
        LET c == Chunks[i]
        IN (~IsTpuChunk(c) \/ ~node_is_tpu(c.nodes[1])) =>
               /\ 0 < Len(c.nodes)
               /\ Len(c.nodes) <= BULK_INSERT_LIMIT
               /\ c.placement_group # None => Len(c.nodes) <= PLACEMENT_MAX_CNT

\* a run in which both limits cut: a full placement group followed by
\* another one, and a full bulk chunk followed by another one
C7_Witness ==
    /\ pc = "grouped"
    /\ \E i, j \in DOMAIN Chunks :
          /\ Chunks[i].placement_group # None
          /\ Len(Chunks[i].nodes) = PLACEMENT_MAX_CNT
          /\ Chunks[j].placement_group # None
          /\ Chunks[j].placement_group # Chunks[i].placement_group
    /\ \E i, j \in DOMAIN Chunks :
          /\ Chunks[i].placement_group = None
          /\ Len(Chunks[i].nodes) = BULK_INSERT_LIMIT
          /\ Chunks[j].placement_group = None
          /\ Chunks[j].prefix = Chunks[i].prefix
          /\ Chunks[j].chunk_idx = Chunks[i].chunk_idx + 1

\* C8: every chunk of accelerator nodes holds exactly vmcount nodes, vmcount
\* being the VM-group size of the chunk's nodeset.
C8_TpuChunkIsVmcount ==
    pc = "grouped" =>
        \A i \in DOMAIN Chunks :
            node_is_tpu(Chunks[i].nodes[1]) =>
                Len(Chunks[i].nodes) = node_nodeset(Chunks[i].nodes[1]).vmcount

----------------------------------------------------------------------------
(* Claims about resume_nodes *)

EventsOf(cmds) == {k \in DOMAIN events : events[k].cmd \in cmds}
TpuCalls == EventsOf({"tpu_get", "tpu_create", "tpu_start"})
GroupNodeSet(group) == Range(DictGet(grouped_nodes, group).nodes)

\* C3: no call of start_tpu (pod lookup, create or start) is made before every
\* bulk operation that was started has completed, with or without an error,
\* and has been waited for.
C3_TpuAfterBulkOperations ==
    TpuCalls # {} =>
        /\ \A i \in DOMAIN op_state : op_state[i] \in {"done", "error"}
        /\ Len(bulk_operations) = Len(Started(bulk_ops))
        /\ \A t \in TpuCalls : \A w \in EventsOf({"wait"}) : w < t

\* a finished run that started a pod after a bulk operation ended in error
C3_Witness ==
    /\ pc = "done"
    /\ TpuCalls # {}
    /\ \E i \in DOMAIN op_state : op_state[i] = "error"

DownNodes(evs) == UNION {evs[k].nodes : k \in {j \in DOMAIN evs : evs[j].cmd = "down"}}
NotifiedJobs(evs) ==
    {evs[k].job[1] : k \in {j \in DOMAIN evs : evs[j].cmd \in {"comment", "notify"}}}
FailedOtherThanExists(ops) ==
    {ops[k].node : k \in {j \in DOMAIN ops :
        /\ ops[j].error # None
        /\ JoinCodes(ops[j].error[1]) # <<"RESOURCE_ALREADY_EXISTS">>}}

\* C4: in the reconciliation of every completed bulk operation, the nodes
\* marked down are exactly the nodes whose insert operation failed with a
\* joined code other than RESOURCE_ALREADY_EXISTS, and a job is commented and
\* notified only if one of these nodes is in its allocation.
C4_ReconcileMarksDownFailed ==
    \A i \in DOMAIN recon :
        /\ DownNodes(recon[i].events) = FailedOtherThanExists(recon[i].ops)
        /\ \A id \in NotifiedJobs(recon[i].events) :
              \E j \in DOMAIN Jobs(resume_data) :
                 /\ Jobs(resume_data)[j].job_id = id
                 /\ Range(Jobs(resume_data)[j].nodes_alloc)
                       \cap FailedOtherThanExists(recon[i].ops) # {}

\* a job's group in which one insert failed with RESOURCE_ALREADY_EXISTS only
\* and another with two codes
C4_Witness ==
    /\ pc = "done"
    /\ \E i \in DOMAIN recon :
          /\ \E k \in DOMAIN recon[i].ops :
                recon[i].ops[k].error = Some(<<"RESOURCE_ALREADY_EXISTS">>)
          /\ \E k \in DOMAIN recon[i].ops :
                recon[i].ops[k].error = Some(<<"RESOURCE_ALREADY_EXISTS", "QUOTA_EXCEEDED">>)
          /\ NotifiedJobs(recon[i].events) # {}

\* C5: a group whose request construction or submission raised has its nodes
\* marked down before any operation is waited for, its request is submitted
\* at most once, and no operation is waited for or reconciled for it.
C5_DispatchFailureMarkedDown ==
    LET marked(group) == {k \in EventsOf({"down"}) : events[k].nodes = GroupNodeSet(group)}
        of(group, cmds) == {k \in EventsOf(cmds) : events[k].group = group}
    IN /\ build_failed # None =>
             /\ marked(build_failed[1]) # {}
             /\ of(build_failed[1], {"submit", "wait", "get_insert_operations"}) = {}
       /\ \A i \in DOMAIN bulk_ops :
             bulk_ops[i][2] = "HttpError" =>
                /\ \E k \in marked(bulk_ops[i][1]) : \A w \in EventsOf({"wait"}) : k < w
                /\ Cardinality(of(bulk_ops[i][1], {"submit"})) = 1
                /\ of(bulk_ops[i][1], {"wait", "get_insert_operations"}) = {}

\* C6: when the run has ended, every group other than the one whose dispatch
\* raised has been submitted, and waited for and reconciled if it started.
C6_FailureIsolation ==
    (pc = "done" \/ build_failed # None) =>
        \A i \in DOMAIN grouped_nodes :
            LET group == grouped_nodes[i][1]
                of(cmds) == {k \in EventsOf(cmds) : events[k].group = group}
            IN (~IsTpuChunk(grouped_nodes[i][2]) /\ build_failed # Some(group)) =>
                  /\ of({"submit"}) # {}
                  /\ DictHas(Started(bulk_ops), group) =>
                        /\ of({"wait"}) # {}
                        /\ of({"get_insert_operations"}) # {}

----------------------------------------------------------------------------
(* Claims about the placement groups *)

\* C9: when every group requested by the first call exists after it, a second
\* call with the same job id and node list returns the same groups with the
\* same nodes, classifies every group as redundant and none as failed.
C9_SecondCallRedundant ==
    [][(/\ Len(pg_calls) = 1
        /\ Range(pg_calls[1].requests) \subseteq policies
        /\ Len(pg_calls') = 2)
       => /\ pg_calls'[2].groups = pg_calls[1].groups
          /\ pg_calls'[2].requests = pg_calls[1].requests
          /\ \A i \in DOMAIN pg_calls'[2].classes :
                pg_calls'[2].classes[i][2] = "redundant"
          /\ ~pg_calls'[2].raised]_vars

\* two calls for a list cut into three groups: the first call submitted all
\* three requests and the groups were created, the second call found them
C9_Witness ==
    /\ Len(pg_calls) = 2
    /\ Len(pg_calls[1].requests) = 3
    /\ \A i \in DOMAIN pg_calls[1].classes : pg_calls[1].classes[i][2] = "submitted"
    /\ Range(pg_calls[1].requests) \subseteq policies
    /\ Len(pg_calls[2].classes) = 3
    /\ \A i \in DOMAIN pg_calls[2].classes : pg_calls[2].classes[i][2] = "redundant"

\* whether a call's list goes past the early returns, from the configuration
EligibleList(node_list) ==
    /\ Len(node_list) >= 2
    /\ NodesetCfg[node_list[1][1]].enable_placement
    /\ \A k \in DOMAIN node_list : NodesetCfg[node_list[k][1]].family \notin INVALID_TYPES

\* C12: for an eligible list of n >= 2 nodes of one nodeset the call returns,
\* without raising, ceil(n/150) groups, group i (from 0) holding the i-th
\* slice of at most 150 consecutive nodes of the list under the name
\* {cluster}-slurmgcp-managed-{nodeset}-{job_id}-{i}, and issues exactly one
\* request per group.
C12_GroupsAreSlices ==
    \A c \in DOMAIN pg_calls :
        LET node_list == pg_calls[c].node_list
            n == Len(node_list)
            groups == pg_calls[c].groups
        IN EligibleList(node_list) =>
              /\ ~pg_calls[c].raised
              /\ Len(groups) = (n + 149) \div 150
              /\ \A i \in DOMAIN groups :
                    /\ groups[i][1] = <<"c", "-slurmgcp-managed-", node_list[1][1], "-",
                                        pg_calls[c].job_id, "-", i - 1>>
                    /\ groups[i][2] = SubSeq(node_list, 150 * (i - 1) + 1,
                                             IF 150 * i < n THEN 150 * i ELSE n)
              /\ Len(pg_calls[c].requests) = Len(groups)
              /\ \A i \in DOMAIN groups : pg_calls[c].requests[i] = groups[i][1]

NoPolicyBucket(node_list) == <<<<None, node_list>>>>
TpuJobs ==
    {j \in DOMAIN Jobs(resume_data) : partition_is_tpu(Jobs(resume_data)[j].partition)}

\* C10: a call for a list of fewer than 2 nodes, for a nodeset with placement
\* disabled or for a list with a node of a disallowed machine family issues
\* no request and returns the list in a single bucket without policy; no call
\* is made for a job of an accelerator partition or with an accelerator node,
\* and these nodes are kept in a single bucket without policy.
C10_NoPolicyCases ==
    /\ \A i \in DOMAIN pg_calls :
          LET node_list == pg_calls[i].node_list
          IN /\ (\/ Len(node_list) < 2
                 \/ ~NodesetCfg[node_list[1][1]].enable_placement
                 \/ \E k \in DOMAIN node_list :
                       NodesetCfg[node_list[k][1]].family \in INVALID_TYPES)
                => /\ pg_calls[i].requests = <<>>
                   /\ pg_calls[i].groups = NoPolicyBucket(node_list)
             /\ \A k \in DOMAIN node_list : ~NodesetCfg[node_list[k][1]].tpu
             /\ \A j \in TpuJobs : pg_calls[i].job_id # Jobs(resume_data)[j].job_id
    /\ \A j \in TpuJobs :
          LET job == Jobs(resume_data)[j]
          IN DictHas(job_groups, <<"job", job.job_id>>) =>
                DictGet(job_groups, <<"job", job.job_id>>).placement_groups
                   = NoPolicyBucket(sorted(nodes \cap Range(job.nodes_alloc)))
    /\ DictHas(job_groups, <<"TPU_None">>) =>
          DictGet(job_groups, <<"TPU_None">>).placement_groups
             = NoPolicyBucket(sorted({n \in AllJoblessNodes(nodes, resume_data) :
                                         NodesetCfg[n[1]].tpu}))

\* a run with a job of an accelerator partition, jobless accelerator nodes,
\* and a job whose allocation gives a call that issues requests, a call for
\* a nodeset with placement disabled and a call for a disallowed family
C10_Witness ==
    /\ pc = "grouped"
    /\ TpuJobs # {}
    /\ DictGet(job_groups, <<"TPU_None">>).placement_groups[1][2] # <<>>
    /\ \E i \in DOMAIN pg_calls : pg_calls[i].requests # <<>>
    /\ \E i \in DOMAIN pg_calls :
          /\ Len(pg_calls[i].node_list) >= 2
          /\ ~NodesetCfg[pg_calls[i].node_list[1][1]].enable_placement
    /\ \E i \in DOMAIN pg_calls :
          /\ Len(pg_calls[i].node_list) >= 2
          /\ NodesetCfg[pg_calls[i].node_list[1][1]].enable_placement
          /\ NodesetCfg[pg_calls[i].node_list[1][1]].family \in INVALID_TYPES

----------------------------------------------------------------------------
(* Claims about down_nodes_notify_jobs *)

\* the positions in the resume file of the jobs whose allocation meets nodes
HitJobs ==
    {j \in DOMAIN Jobs(resume_data) :
        Range(Jobs(resume_data)[j].nodes_alloc) \cap nodes # {}}

\* C11: down_nodes_notify_jobs issues first one mark-down command for the
\* whole node set, then, for exactly the jobs whose allocation meets the node
\* set, a comment command followed by a notify command; without a resume file
\* it issues the mark-down command alone.
C11_DownThenNotify ==
    pc = "done" =>
        /\ events # <<>>
        /\ events[1].cmd = "down" /\ events[1].nodes = nodes
        /\ \A k \in 2..Len(events) : events[k].cmd # "down"
        /\ resume_data = None => Len(events) = 1
        /\ Len(events) = 1 + 2 * Cardinality(HitJobs)
        /\ \A j \in HitJobs :
              \E k \in 2..(Len(events) - 1) :
                 /\ events[k].cmd = "comment"
                 /\ events[k + 1].cmd = "notify"
                 /\ events[k].job = Some(Jobs(resume_data)[j].job_id)
                 /\ events[k + 1].job = Some(Jobs(resume_data)[j].job_id)

\* a call with a resume file of two jobs, one of them allocated no node of
\* the set
C11_Witness ==
    /\ pc = "done"
    /\ Len(Jobs(resume_data)) = 2
    /\ Cardinality(HitJobs) = 1
    /\ Len(events) = 3

----------------------------------------------------------------------------
(* Claims about the group identifiers *)

\* the chunks of lines 295-308, before they are keyed by their identifier
AllChunks == Flatten([j \in DOMAIN job_groups |-> JobChunks(job_groups[j][2])])

\* {prefix}:job{job_id}:{placement_group}:{chunk_index}, a segment left out
\* when the chunk has no job or no placement group
IdentifierOf(c) ==
    <<c.prefix>>
    \o (IF c.job_id # None THEN <<":job", c.job_id[1]>> ELSE <<>>)
    \o (IF c.placement_group # None THEN <<":", c.placement_group>> ELSE <<>>)
    \o <<":", c.chunk_idx>>

\* C13: no two chunks of one call get the same identifier; the identifier is
\* {prefix}:job{job_id}:{placement_group}:{chunk_index} without the placement
\* segment when the chunk has no placement group and without the job segment
\* when it has no job; chunk_index counts the chunks of one (job, placement
\* group, prefix) from 0; jobless nodes of one prefix with placement disabled
\* give ceil(n/5000) chunks {prefix}:0, {prefix}:1, ..., of 5000 nodes but the
\* last.
C13_GroupIdentifiers ==
    pc = "grouped" =>
        /\ Len(grouped_nodes) = Len(AllChunks)
        /\ \A i \in DOMAIN grouped_nodes :
              LET c == grouped_nodes[i][2]
                  earlier == {k \in 1..(i - 1) :
                                 /\ grouped_nodes[k][2].job_id = c.job_id
                                 /\ grouped_nodes[k][2].placement_group = c.placement_group
                                 /\ grouped_nodes[k][2].prefix = c.prefix}
              IN /\ grouped_nodes[i][1] = IdentifierOf(c)
                 /\ c.chunk_idx = Cardinality(earlier)
        /\ (resume_data = None /\ \A n \in nodes : n[1] = "b") =>
              /\ Len(grouped_nodes) = (Cardinality(nodes) + 4999) \div 5000
              /\ \A i \in DOMAIN grouped_nodes :
                    /\ grouped_nodes[i][1] = <<"b", ":", i - 1>>
                    /\ Len(grouped_nodes[i][2].nodes) =
                          IF i < Len(grouped_nodes) THEN 5000
                          ELSE Cardinality(nodes) - 5000 * (i - 1)

----------------------------------------------------------------------------
(* Claims about the request body *)

\* C14: the body built for a chunk has count equal to the number of nodes of
\* the chunk and one perInstanceProperties entry per node of the chunk;
\* minCount is absent exactly when the chunk has a placement group and is 1
\* otherwise.
C14_RequestBody ==
    \A i \in DOMAIN bi_inserts :
        LET chunk == DictGet(grouped_nodes, bi_inserts[i][1])
            body == bi_inserts[i][2]
        IN /\ body.count = Len(chunk.nodes)
           /\ body.perInstanceProperties = Range(chunk.nodes)
           /\ Cardinality(body.perInstanceProperties) = body.count
           /\ body.minCount = None <=> chunk.placement_group # None
           /\ chunk.placement_group = None => body.minCount = Some(1)

\* a request built for a chunk of two nodes in a placement group
C14_Witness ==
    \E i \in DOMAIN bi_inserts :
        /\ DictGet(grouped_nodes, bi_inserts[i][1]).placement_group # None
        /\ bi_inserts[i][2].count = 2
        /\ bi_inserts[i][2].minCount = None

----------------------------------------------------------------------------
(* Claims about the outcomes of the placement requests *)

ClassOf(call, name) ==
    call.classes[CHOOSE i \in DOMAIN call.classes : call.classes[i][1] = name][2]

\* C15: a call in which a request failed with an error other than
\* already-exists does not raise, waits for every operation it submitted,
\* and returns the groups with the failed group's nodes under its name.
C15_FailedGroupKept ==
    \A c \in DOMAIN pg_calls :
        (\E i \in DOMAIN pg_calls[c].classes : pg_calls[c].classes[i][2] = "failed") =>
            /\ ~pg_calls[c].raised
            /\ Range(pg_calls[c].waited) =
                  {name \in Range(pg_calls[c].requests) :
                      ClassOf(pg_calls[c], name) = "submitted"}
            /\ DictKeys(pg_calls[c].groups) = pg_calls[c].requests


\* C16: an outcome is classified submitted exactly when the request returned
\* an operation, redundant only when the provider reported that the policy
\* already exists, and failed for every other raised error, also one that
\* carries no error details.
C16_Classification ==
    \A c \in DOMAIN pg_calls : \A i \in DOMAIN pg_calls[c].ops :
        LET op == pg_calls[c].ops[i][2]
            class == pg_calls[c].classes[i][2]
            exists == /\ op.exc
                      /\ op.error_details # <<>>
                      /\ \A k \in DOMAIN op.error_details :
                            op.error_details[k] = "alreadyExists"
        IN /\ pg_calls[c].classes[i][1] = pg_calls[c].ops[i][1]
           /\ class = "submitted" <=> ~op.exc
           /\ class = "redundant" <=> exists
           /\ class = "failed" <=> (op.exc /\ ~exists)


\* C17: within one call of create_placement_groups every group's request is
\* submitted before any submitted operation is waited for, the call returns
\* only after every submitted operation has been waited for, and only a
\* failed request, never an operation that completed with an error, makes the
\* call raise.
C17_SubmitBeforeAwait ==
    /\ \A w \in EventsOf({"pg_wait"}) : \A k \in EventsOf({"pg_submit"}) : k < w
    /\ pc = "done" =>
          \A c \in DOMAIN pg_calls :
              Range(pg_calls[c].waited)
                 \subseteq {events[w].group : w \in EventsOf({"pg_wait"})}
    /\ pc = "raised" =>
          \E i \in DOMAIN pg_calls[Len(pg_calls)].classes :
              pg_calls[Len(pg_calls)].classes[i][2] = "failed"

----------------------------------------------------------------------------
(* Claims about two invocations *)

\* the placement groups under which a run's chunks hold the node
PlacementOf(run, node) ==
    {run.grouped_nodes[i][2].placement_group :
        i \in {k \in DOMAIN run.grouped_nodes : node \in Range(run.grouped_nodes[k][2].nodes)}}

\* the invocation that follows the recorded one
SecondRun == [nodes |-> nodes, grouped_nodes |-> grouped_nodes]

NormalJobs ==
    {j \in DOMAIN Jobs(resume_data) : ~partition_is_tpu(Jobs(resume_data)[j].partition)}

\* C18: for the same job and allocation, a node of the job that is resumed in
\* two invocations with different resumed sets has the same placement group
\* in the chunks of both.
C18_StablePlacement ==
    (Len(runs) = 1 /\ pc = "grouped") =>
        \A j \in NormalJobs :
            \A node \in Range(Jobs(resume_data)[j].nodes_alloc) \cap runs[1].nodes \cap nodes :
                PlacementOf(runs[1], node) = PlacementOf(SecondRun, node)

\* the last node of the second placement group of a job, resumed with the
\* first node of the first group and then with the last node of the first
C18_Witness ==
    /\ Len(runs) = 1
    /\ pc = "grouped"
    /\ runs[1].nodes = {<<"a", 1>>, <<"a", PLACEMENT_MAX_CNT + LargeOver>>}
    /\ nodes = {<<"a", PLACEMENT_MAX_CNT>>, <<"a", PLACEMENT_MAX_CNT + LargeOver>>}
    /\ PlacementOf(SecondRun, <<"a", PLACEMENT_MAX_CNT + LargeOver>>)
          = {PgName("a", JobIds[1], 1)}
    /\ PlacementOf(SecondRun, <<"a", PLACEMENT_MAX_CNT>>) = {PgName("a", JobIds[1], 0)}

----------------------------------------------------------------------------
(* Claims about start_tpu *)

\* the events of the given commands that are about the node set
CallsOn(cmds, node_set) == {k \in EventsOf(cmds) : events[k].nodes = node_set}

\* C19: once start_tpu has run on a group, a single-node group has one lookup,
\* a create call exactly when the lookup found nothing, a start call exactly
\* when it found the pod and the nodeset has preserve_tpu, and no other create
\* or start; a group of several nodes has one create call and no lookup or
\* start; no node of the group is marked down and no job is notified.
C19_StartTpuCalls ==
    \A k \in tpu_done :
        LET data == tpu_start_data[k]
            ns == Range(data.node)
            gets == CallsOn({"tpu_get"}, ns)
            creates == Cardinality(CallsOn({"tpu_create"}, ns))
            starts == Cardinality(CallsOn({"tpu_start"}, ns))
        IN /\ IF Len(data.node) = 1
              THEN /\ Cardinality(gets) = 1
                   /\ \A g \in gets :
                        /\ creates = (IF events[g].reason = Some(FALSE) THEN 1 ELSE 0)
                        /\ starts = (IF /\ events[g].reason = Some(TRUE)
                                        /\ NodesetCfg[data.tpu].preserve_tpu
                                     THEN 1 ELSE 0)
                        /\ \A c \in CallsOn({"tpu_create", "tpu_start"}, ns) : g < c
              ELSE /\ gets = {}
                   /\ creates = 1
                   /\ starts = 0
           /\ DownNodes(events) \cap ns = {}
           /\ NotifiedJobs(events) = {}

\* a finished run in which a pod without preserve_tpu was found and left
\* alone, and the create call of a group of several nodes failed
C19_Witness ==
    /\ pc = "done"
    /\ \E k \in tpu_done :
          /\ Len(tpu_start_data[k].node) = 1
          /\ ~NodesetCfg[tpu_start_data[k].tpu].preserve_tpu
          /\ \E g \in CallsOn({"tpu_get"}, Range(tpu_start_data[k].node)) :
                events[g].reason = Some(TRUE)
    /\ \E k \in tpu_done :
          /\ Len(tpu_start_data[k].node) > 1
          /\ CallsOn({"log_error"}, Range(tpu_start_data[k].node)) # {}

----------------------------------------------------------------------------
(* Claims about dws_flex_duration *)

\* the conditions under which the job's duration is to be used
DwsUsesJob(call) ==
    /\ call.dws_flex.use_job_duration
    /\ call.job_id # None
    /\ call.job # None
    /\ call.job[1].duration \notin {None, Some([seconds |-> 0, microseconds |-> 0])}
    /\ call.job[1].duration[1].seconds >= 30
    /\ \/ call.job[1].duration[1].seconds < 14 * 86400
       \/ call.job[1].duration[1] = [seconds |-> 14 * 86400, microseconds |-> 0]

\* C20: dws_flex_duration returns the whole seconds of the job's duration
\* when use_job_duration is set, a job id is given, the job is found, its
\* duration is not zero and lies between 30 seconds and 2 weeks, limits
\* included; in every other case it returns max_run_duration.
C20_DwsFlexDuration ==
    (dws # None /\ dws[1].result # None) =>
        dws[1].result[1] = IF DwsUsesJob(dws[1])
                           THEN dws[1].job[1].duration[1].seconds
                           ELSE dws[1].dws_flex.max_run_duration

\* a job of exactly two weeks, whose duration is returned
C20_Witness ==
    /\ dws # None
    /\ dws[1].result = Some(14 * 86400)
    /\ dws[1].job # None
    /\ dws[1].job[1].duration = Some([seconds |-> 14 * 86400, microseconds |-> 0])

----------------------------------------------------------------------------
(* Claims about the end of resume_nodes *)

\* the chunks of grouped_nodes that hold a node of an accelerator nodeset
TpuChunkGroups ==
    {grouped_nodes[i][1] : i \in {k \in DOMAIN grouped_nodes :
        \E node \in Range(grouped_nodes[k][2].nodes) : node_is_tpu(node)}}

\* C21: no bulk-create request is built or submitted for a chunk of
\* accelerator nodes, and once the requests are built every accelerator
\* chunk, a jobless one included, is in the data handed to start_tpu.
C21_TpuChunksToStartTpu ==
    /\ \A group \in TpuChunkGroups :
          /\ ~DictHas(bi_inserts, group)
          /\ ~DictHas(bulk_ops, group)
    /\ pc \in {"built", "waiting", "tpu", "reconcile", "done"} =>
          \A group \in TpuChunkGroups :
             \E k \in DOMAIN tpu_start_data :
                tpu_start_data[k].node = DictGet(grouped_nodes, group).nodes

\* the nodes the reconciliation reported as created
ReadyNodes == UNION {recon[i].ready_nodes : i \in DOMAIN recon}

\* the nodes whose insert operation failed with RESOURCE_ALREADY_EXISTS only
AlreadyExistsNodes ==
    UNION {{recon[i].ops[k].node : k \in {j \in DOMAIN recon[i].ops :
                /\ recon[i].ops[j].error # None
                /\ JoinCodes(recon[i].ops[j].error[1]) = <<"RESOURCE_ALREADY_EXISTS">>}} :
           i \in DOMAIN recon}

\* C22: when resume_nodes has returned, every node of an ordinary nodeset
\* that it was asked to resume was reported created, was reported
\* RESOURCE_ALREADY_EXISTS, or has been marked down; so are the nodes of a
\* group whose bulk operation ended in error with no insert operation listed.
C22_EveryNodeAccounted ==
    pc = "done" =>
        \A node \in {n \in nodes : ~node_is_tpu(n)} :
            node \in ReadyNodes \cup AlreadyExistsNodes \cup DownNodes(events)

\* the i-th started bulk operation has completed, with or without an error
OpCompleted(i) == i \in DOMAIN op_state /\ op_state[i] # "running"

\* the group of the i-th started bulk operation has been reconciled
GroupReconciled(i) ==
    /\ i \in DOMAIN op_state
    /\ \E r \in DOMAIN recon : recon[r].group = Started(bulk_ops)[i][1]

\* C23: whatever other bulk operation never completes, a started group
\* whose own operation has completed is eventually reconciled.
C23_HungOperationBlocksOwnGroup ==
    \A i \in 1..MaxRun : OpCompleted(i) ~> GroupReconciled(i)

====
